---- MODULE Spec2Model ----
(***************************************************************************)
(* The Stratum JSON-RPC codec (package stratumrpc): one stratumCodec per   *)
(* connection, read by the engine's single read loop (ReadHeader and the   *)
(* body readers) and written by concurrent goroutines (WriteRequest,       *)
(* WriteResponse).  The mutex guards seq and pending only; the encoder is  *)
(* used outside of it.                                                     *)
(***************************************************************************)
EXTENDS Integers, Sequences, FiniteSets, TLC

\* ------------------------------------------------------------------ bounds
\* Inbound requests with an id that the read loop accepts (caps c.seq).
MaxSeq == 2
\* Outgoing WriteRequest frames.
MaxCalls == 1
\* Concurrent writer goroutines.
NumWriters == 2

Writers == 1..NumWriters
Reader == 0

\* ------------------------------------------------------------ JSON values
\* A raw JSON text (json.RawMessage) is a non-empty sequence of characters;
\* a nil *json.RawMessage is Nil.
Nil == <<>>
JNullText == <<"null">>

\* Wire ids of inbound requests: the number 7, the string "7", and an array
\* holding insignificant white space and a character the encoder escapes.
IdNum == <<"7">>
IdStr == <<"\"", "7", "\"">>
IdArr == <<"[", " ", "\"", "<", "\"", "]">>
IdTexts == {IdNum, IdStr, IdArr}

RECURSIVE CompactFrom(_, _, _)
CompactFrom(raw, i, inStr) ==
    IF i > Len(raw) THEN <<>>
    ELSE LET c == raw[i]
             nowStr == IF c = "\"" THEN ~inStr ELSE inStr
             out == IF c \in {"<", ">", "&"}
                    THEN << IF c = "<" THEN "\\u003c"
                            ELSE IF c = ">" THEN "\\u003e" ELSE "\\u0026" >>
                    ELSE IF c \in {" ", "\t", "\n", "\r"} /\ ~inStr THEN <<>>
                    ELSE <<c>>
         IN out \o CompactFrom(raw, i + 1, nowStr)

\* What the encoder emits for a RawMessage: the text compacted, with the
\* HTML characters escaped.
Compact(raw) == CompactFrom(raw, 1, FALSE)

RECURSIVE CanonFrom(_, _, _)
CanonFrom(raw, i, inStr) ==
    IF i > Len(raw) THEN <<>>
    ELSE LET c == raw[i]
             nowStr == IF c = "\"" THEN ~inStr ELSE inStr
             out == IF c = "\\u003c" THEN <<"<">>
                    ELSE IF c = "\\u003e" THEN <<">">>
                    ELSE IF c = "\\u0026" THEN <<"&">>
                    ELSE IF c \in {" ", "\t", "\n", "\r"} /\ ~inStr THEN <<>>
                    ELSE <<c>>
         IN out \o CanonFrom(raw, i + 1, nowStr)

JsonKind(raw) ==
    LET t == CanonFrom(raw, 1, FALSE)
    IN IF t = <<>> THEN "none"
       ELSE IF t[1] = "\"" THEN "string"
       ELSE IF t[1] = "[" THEN "array"
       ELSE IF t[1] = "{" THEN "object"
       ELSE IF t = JNullText THEN "null"
       ELSE IF t[1] \in {"t", "f"} THEN "bool"
       ELSE "number"

\* The JSON value a text denotes: its type and its content, white space
\* between tokens and escape spellings aside.
JsonValue(raw) == [kind |-> JsonKind(raw), text |-> CanonFrom(raw, 1, FALSE)]

DigitVal == ("0" :> 0) @@ ("1" :> 1) @@ ("2" :> 2) @@ ("3" :> 3) @@ ("4" :> 4)
            @@ ("5" :> 5) @@ ("6" :> 6) @@ ("7" :> 7) @@ ("8" :> 8) @@ ("9" :> 9)

RECURSIVE DigitsValue(_, _)
DigitsValue(raw, n) ==
    IF n = 0 THEN 0 ELSE 10 * DigitsValue(raw, n - 1) + DigitVal[raw[n]]

\* A uint64 as the encoder writes it: its decimal digits.
DigitChar == <<"0", "1", "2", "3", "4", "5", "6", "7", "8", "9">>

RECURSIVE UintText(_)
UintText(n) ==
    IF n < 10 THEN <<DigitChar[n + 1]>>
    ELSE UintText(n \div 10) \o <<DigitChar[(n % 10) + 1]>>

\* json.Unmarshal(raw, &uint64): only an unsigned integer literal decodes;
\* JSON null leaves the target as it is.
UintOk(raw) == raw = JNullText \/ (raw # <<>> /\ \A i \in 1..Len(raw) : raw[i] \in DOMAIN DigitVal)
UintValue(raw, old) == IF raw = JNullText THEN old ELSE DigitsValue(raw, Len(raw))

\* ------------------------------------------------------------ wire frames
\* One JSON value as it appears on the stream.  params, id and result are
\* raw texts (Nil when the member is absent); method and error are given by
\* their JSON value.
Absent == [kind |-> "absent", str |-> "", elems |-> <<>>]
JNull == [kind |-> "null", str |-> "", elems |-> <<>>]
JString(s) == [kind |-> "string", str |-> s, elems |-> <<>>]
JNumber(s) == [kind |-> "number", str |-> s, elems |-> <<>>]
JObject == [kind |-> "object", str |-> "", elems |-> <<>>]
JArray(es) == [kind |-> "array", str |-> "", elems |-> es]

ParamsText == <<"[", "1", ",", "2", "]">>
ResultText == <<"3">>

Frame(m, p, i, r, e) == [method |-> m, params |-> p, id |-> i, result |-> r, error |-> e]

\* Inbound requests that carry an id.  The last one also carries result and
\* error members, which a request has no use for.
RequestFrames ==
    { Frame(JString("add"), ParamsText, IdNum, Nil, Absent),
      Frame(JString("add"), ParamsText, IdStr, Nil, Absent),
      Frame(JString("add"), ParamsText, IdArr, Nil, Absent),
      Frame(JString("add"), ParamsText, IdNum, ResultText, JString("boom")) }

\* Inbound notifications: the id member is absent, or it is JSON null.
NotificationFrames ==
    { Frame(JString("add"), ParamsText, Nil, Nil, Absent),
      Frame(JString("add"), ParamsText, JNullText, ResultText, Absent) }

\* Inbound responses (no method, or an empty one).
ResponseFrames ==
    { Frame(Absent, Nil, <<"1">>, ResultText, JNull),
      Frame(JString(""), ParamsText, <<"1">>, ResultText, JString("")) }

\* Inbound requests of method "ping", which has no params: the member is
\* absent, or it is JSON null; with an id and without.
NoParamsFrames ==
    { Frame(JString("ping"), Nil, IdStr, Nil, Absent),
      Frame(JString("ping"), JNullText, IdStr, Nil, Absent),
      Frame(JString("ping"), Nil, Nil, Nil, Absent) }

\* Inbound responses whose id is absent, JSON null, or not an unsigned
\* integer (a string, a negative number, a fraction).
BadIdFrames ==
    { Frame(Absent, Nil, Nil, ResultText, JNull),
      Frame(Absent, Nil, JNullText, ResultText, JNull),
      Frame(Absent, Nil, IdStr, ResultText, JNull),
      Frame(Absent, Nil, <<"-", "1">>, ResultText, JNull),
      Frame(Absent, Nil, <<"1", ".", "5">>, ResultText, JNull) }

\* Inbound responses whose error member is neither a string nor an array
\* with a string in second place: an object, a number, an empty array, an
\* array of one element, arrays whose second element is a number or null.
BadErrorFrames ==
    { Frame(Absent, Nil, <<"1">>, Nil, JObject),
      Frame(Absent, Nil, <<"1">>, Nil, JNumber("20")),
      Frame(Absent, Nil, <<"1">>, Nil, JArray(<<>>)),
      Frame(Absent, Nil, <<"1">>, Nil, JArray(<<JString("33")>>)),
      Frame(Absent, Nil, <<"1">>, Nil, JArray(<<JNumber("33"), JNumber("5")>>)),
      Frame(Absent, Nil, <<"1">>, Nil, JArray(<<JString("33"), JNull>>)) }

\* Inbound responses whose error member is absent, null, a string, or an
\* array with a string in second place.
ErrorTextFrames ==
    { Frame(Absent, Nil, <<"1">>, ResultText, Absent),
      Frame(Absent, Nil, <<"1">>, ResultText, JNull),
      Frame(Absent, Nil, <<"1">>, Nil, JString("boom")),
      Frame(Absent, Nil, <<"1">>, Nil, JString("")),
      Frame(Absent, Nil, <<"1">>, Nil,
            JArray(<<JString("33"), JString("Unauthorized"), JNull>>)),
      Frame(Absent, Nil, <<"1">>, Nil, JArray(<<JNumber("20"), JString("")>>)) }

\* json.Decoder.Decode into a *json.RawMessage member: absent leaves the nil
\* of the zeroed message, JSON null sets nil, anything else keeps the text.
DecodeRaw(t) == IF t = Nil \/ t = JNullText THEN Nil ELSE t

\* Decode into the string member Method: absent and null leave "".
DecodeString(v) == IF v.kind = "string" THEN v.str ELSE ""

\* Decode into the interface{} member Error: absent and null leave nil, a
\* string becomes a Go string, an array a []interface{}, and so on.
DecodeAny(v) ==
    IF v.kind \in {"absent", "null"} THEN [kind |-> "nil", str |-> "", elems |-> <<>>]
    ELSE IF v.kind = "array"
         THEN [kind |-> "slice", str |-> "", elems |-> v.elems]
    ELSE IF v.kind = "object" THEN [kind |-> "map", str |-> "", elems |-> <<>>]
    ELSE IF v.kind = "number" THEN [kind |-> "float64", str |-> v.str, elems |-> <<>>]
    ELSE v

GoNil == DecodeAny(Absent)

\* c.msg = message{}; c.dec.Decode(&c.msg)
Decode(f) == [Method |-> DecodeString(f.method),
              Params |-> DecodeRaw(f.params),
              ID     |-> DecodeRaw(f.id),
              Result |-> DecodeRaw(f.result),
              Error  |-> DecodeAny(f.error)]

\* --------------------------------------------------------------- the codec
VARIABLES
    seq,            \* c.seq
    pending,        \* c.pending: sequence number -> original id text
    mutex,          \* c.mutex: the set of goroutines holding it (empty when free)
    serverRequest,  \* c.serverRequest, read-path work space
    clientResponse, \* c.clientResponse, read-path work space
    stream,         \* what c.enc has written to the connection, in order
    req, resp,      \* the engine's Request and Response handed to ReadHeader
    rpc, rret,      \* the read loop: where it is, what ReadHeader last returned
    body,           \* what the last body reader returned
    wpc, wr, wb,    \* each writer: where it is, its arguments, its local b
    wret,           \* each writer: what its call returned
    issued,         \* sequence numbers reported in req.Seq, with their ids, in read order
    consumed        \* sequence numbers whose WriteResponse lookup has succeeded

vars == <<seq, pending, mutex, serverRequest, clientResponse, stream, req, resp,
          rpc, rret, body, wpc, wr, wb, wret, issued, consumed>>

codecVars == <<seq, pending, mutex, serverRequest, clientResponse>>
readerVars == <<req, resp, rpc, rret, body>>
writerVars == <<wpc, wr, wb, wret>>

ZeroRequest == [Method |-> "", Seq |-> 0]
ZeroResponse == [Seq |-> 0, Error |-> ""]
NoBody == [op |-> "none", ret |-> "none", got |-> Nil]
NoArgs == [op |-> "none", Seq |-> 0, Error |-> "", Method |-> "", Param |-> <<>>]

\* NewStratumCodec: an empty pending map, seq 0, zeroed work space.
Init ==
    /\ seq = 0
    /\ pending = <<>>
    /\ mutex = {}
    /\ serverRequest = [Method |-> "", Params |-> Nil, ID |-> Nil]
    /\ clientResponse = [ID |-> 0, Result |-> Nil, Error |-> GoNil]
    /\ stream = <<>>
    /\ req = ZeroRequest
    /\ resp = ZeroResponse
    /\ rpc = "ready"
    /\ rret = "none"
    /\ body = NoBody
    /\ wpc = [w \in Writers |-> "idle"]
    /\ wr = [w \in Writers |-> NoArgs]
    /\ wb = [w \in Writers |-> Nil]
    /\ wret = [w \in Writers |-> "none"]
    /\ issued = <<>>
    /\ consumed = {}

\* A panic in the read loop is not recovered by the codec: the process dies.
Alive == rpc # "panic"

\* c.mutex.Lock() by goroutine p: waits until the mutex is free.
LockNoWait(p) == mutex' = mutex \cup {p}
Lock(p) == mutex = {} /\ mutex' = {p}

\* c.mutex.Unlock()
Unlock == mutex' = {}

\* ------------------------------------------------------------- ReadHeader
\* The error normalisation of an inbound response: the text for resp.Error,
\* or how ReadHeader ends instead.
ErrorOutcomeFirstElement(e) ==
    IF e.kind = "nil" THEN [end |-> "nil", text |-> ""]
    ELSE IF e.kind = "string"
         THEN [end |-> "nil", text |-> IF e.str = "" THEN "unspecified error" ELSE e.str]
    ELSE IF e.kind # "slice" THEN [end |-> "errInvalidError", text |-> ""]
    ELSE IF Len(e.elems) < 2 THEN [end |-> "panic", text |-> ""]
    ELSE IF e.elems[1].kind # "string" THEN [end |-> "panic", text |-> ""]
    ELSE [end |-> "nil", text |-> IF e.elems[1].str = "" THEN "unspecified error"
                                   ELSE e.elems[1].str]

ErrorOutcome(e) ==
    IF e.kind = "nil" THEN [end |-> "nil", text |-> ""]
    ELSE IF e.kind = "string"
         THEN [end |-> "nil", text |-> IF e.str = "" THEN "unspecified error" ELSE e.str]
    ELSE IF e.kind # "slice" THEN [end |-> "errInvalidError", text |-> ""]
    ELSE IF Len(e.elems) < 2 THEN [end |-> "panic", text |-> ""]
    ELSE IF e.elems[2].kind # "string" THEN [end |-> "panic", text |-> ""]
    ELSE [end |-> "nil", text |-> IF e.elems[2].str = "" THEN "unspecified error"
                                   ELSE e.elems[2].str]

\* What c.dec.Decode can fail with: the end of the stream, malformed JSON
\* (the decoder keeps both and returns them again on every later call), and
\* a member of the wrong JSON type, after which the decoder goes on with the
\* next value.
DecodeErrors == {"EOF", "errSyntax", "errType"}
StickyErrors == {"EOF", "errSyntax"}

\* Every ReadHeader call is handed a fresh Request and Response by the read
\* loop.  Decoding fails with e: ReadHeader returns at line 94.
ReadHeaderDecodeFailsWrapped(e) ==
    /\ Alive /\ rpc = "ready"
    /\ rret' = "errDecode"
    /\ rpc' = IF e \in StickyErrors THEN "closed" ELSE "ready"
    /\ body' = NoBody
    /\ req' = ZeroRequest /\ resp' = ZeroResponse
    /\ UNCHANGED <<codecVars, stream, writerVars, issued, consumed>>

ReadHeaderDecodeFails(e) ==
    /\ Alive /\ rpc = "ready"
    /\ rret' = e
    /\ rpc' = IF e \in StickyErrors THEN "closed" ELSE "ready"
    /\ body' = NoBody
    /\ req' = ZeroRequest /\ resp' = ZeroResponse
    /\ UNCHANGED <<codecVars, stream, writerVars, issued, consumed>>

\* The stream ends.
ReadHeaderDecodeError == ReadHeaderDecodeFails("EOF")

\* An inbound request: the work space is filled, and a request with an id
\* goes on to the critical section.
ReadHeaderRequestNumbersAll(f) ==
    LET msg == Decode(f) IN
    /\ Alive /\ rpc = "ready"
    /\ msg.Method # ""
    /\ seq < MaxSeq
    /\ serverRequest' = [ID |-> msg.ID, Method |-> msg.Method, Params |-> msg.Params]
    /\ req' = [ZeroRequest EXCEPT !.Method = msg.Method]
    /\ resp' = ZeroResponse
    /\ body' = NoBody
    /\ rpc' = "rh_lock" /\ rret' = "none"
    /\ UNCHANGED <<seq, pending, mutex, clientResponse, stream,
                   writerVars, issued, consumed>>

ReadHeaderRequestKeepsParams(f) ==
    LET msg == Decode(f) IN
    /\ Alive /\ rpc = "ready"
    /\ msg.Method # ""
    /\ msg.ID # Nil => seq < MaxSeq
    /\ serverRequest' = [ID |-> msg.ID, Method |-> msg.Method,
                         Params |-> IF msg.Params = Nil THEN serverRequest.Params
                                    ELSE msg.Params]
    /\ req' = [ZeroRequest EXCEPT !.Method = msg.Method]
    /\ resp' = ZeroResponse
    /\ body' = NoBody
    /\ IF msg.ID = Nil
       THEN rpc' = "ready" /\ rret' = "nil"
       ELSE rpc' = "rh_lock" /\ rret' = "none"
    /\ UNCHANGED <<seq, pending, mutex, clientResponse, stream,
                   writerVars, issued, consumed>>

ReadHeaderRequest(f) ==
    LET msg == Decode(f) IN
    /\ Alive /\ rpc = "ready"
    /\ msg.Method # ""
    /\ msg.ID # Nil => seq < MaxSeq
    /\ serverRequest' = [ID |-> msg.ID, Method |-> msg.Method, Params |-> msg.Params]
    /\ req' = [ZeroRequest EXCEPT !.Method = msg.Method]
    /\ resp' = ZeroResponse
    /\ body' = NoBody
    /\ IF msg.ID = Nil
       THEN rpc' = "ready" /\ rret' = "nil"
       ELSE rpc' = "rh_lock" /\ rret' = "none"
    /\ UNCHANGED <<seq, pending, mutex, clientResponse, stream,
                   writerVars, issued, consumed>>

ReadHeaderLock ==
    /\ Alive /\ rpc = "rh_lock"
    /\ Lock(Reader)
    /\ rpc' = "rh_incr"
    /\ UNCHANGED <<seq, pending, serverRequest, clientResponse, stream, req, resp,
                   rret, body, writerVars, issued, consumed>>

\* c.seq++
ReadHeaderIncrForgotten ==
    /\ Alive /\ rpc = "rh_incr"
    /\ seq' = seq
    /\ rpc' = "rh_insert"
    /\ UNCHANGED <<pending, mutex, serverRequest, clientResponse, stream, req, resp,
                   rret, body, writerVars, issued, consumed>>

ReadHeaderIncr ==
    /\ Alive /\ rpc = "rh_incr"
    /\ seq' = seq + 1
    /\ rpc' = "rh_insert"
    /\ UNCHANGED <<pending, mutex, serverRequest, clientResponse, stream, req, resp,
                   rret, body, writerVars, issued, consumed>>

\* c.pending[c.seq] = c.serverRequest.ID
ReadHeaderInsertOldKey ==
    /\ Alive /\ rpc = "rh_insert"
    /\ pending' = [s \in DOMAIN pending \cup {seq - 1} |->
                      IF s = seq - 1 THEN serverRequest.ID ELSE pending[s]]
    /\ rpc' = "rh_assign"
    /\ UNCHANGED <<seq, mutex, serverRequest, clientResponse, stream, req, resp,
                   rret, body, writerVars, issued, consumed>>

ReadHeaderInsertAfterClear ==
    /\ Alive /\ rpc = "rh_insert"
    /\ pending' = [s \in DOMAIN pending \cup {seq} |->
                      IF s = seq THEN Nil ELSE pending[s]]
    /\ rpc' = "rh_assign"
    /\ UNCHANGED <<seq, mutex, serverRequest, clientResponse, stream, req, resp,
                   rret, body, writerVars, issued, consumed>>

ReadHeaderInsert ==
    /\ Alive /\ rpc = "rh_insert"
    /\ pending' = [s \in DOMAIN pending \cup {seq} |->
                      IF s = seq THEN serverRequest.ID ELSE pending[s]]
    /\ rpc' = "rh_assign"
    /\ UNCHANGED <<seq, mutex, serverRequest, clientResponse, stream, req, resp,
                   rret, body, writerVars, issued, consumed>>

\* c.serverRequest.ID = nil; req.Seq = c.seq; c.mutex.Unlock(); return nil
ReadHeaderAssign ==
    /\ Alive /\ rpc = "rh_assign"
    /\ req' = [req EXCEPT !.Seq = seq]
    /\ issued' = Append(issued, [seq |-> req'.Seq, id |-> serverRequest.ID])
    /\ serverRequest' = [serverRequest EXCEPT !.ID = Nil]
    /\ Unlock
    /\ rpc' = "ready" /\ rret' = "nil"
    /\ UNCHANGED <<seq, pending, clientResponse, stream, resp,
                   body, writerVars, consumed>>

\* An inbound response: the id is decoded as a uint64 and the error field is
\* normalised.
ReadHeaderResponseSetsReqSeq(f) ==
    LET msg == Decode(f)
        out == ErrorOutcome(msg.Error)
        id  == UintValue(msg.ID, clientResponse.ID)
    IN
    /\ Alive /\ rpc = "ready"
    /\ msg.Method = ""
    /\ msg.ID # Nil /\ UintOk(msg.ID) /\ out.end # "panic"
    /\ body' = NoBody
    /\ req' = [ZeroRequest EXCEPT !.Seq = id]
    /\ clientResponse' = [ID |-> id, Result |-> msg.Result, Error |-> msg.Error]
    /\ resp' = [Seq |-> id, Error |-> out.text]
    /\ rpc' = "ready" /\ rret' = out.end
    /\ UNCHANGED <<seq, pending, mutex, serverRequest, stream,
                   writerVars, issued, consumed>>

\* An inbound response, as the code reads it.  Dereferencing a nil id, indexing a short array and asserting
\* a non-string to string panic.
ReadHeaderResponse(f) ==
    LET msg == Decode(f)
        out == ErrorOutcome(msg.Error)
        id  == UintValue(msg.ID, clientResponse.ID)
    IN
    /\ Alive /\ rpc = "ready"
    /\ msg.Method = ""
    /\ body' = NoBody
    /\ req' = ZeroRequest
    /\ IF msg.ID = Nil
       THEN /\ rpc' = "panic" /\ rret' = "none"
            /\ resp' = ZeroResponse
            /\ UNCHANGED clientResponse
       ELSE IF ~UintOk(msg.ID)
       THEN /\ rpc' = "ready" /\ rret' = "errUnmarshal"
            /\ resp' = ZeroResponse
            /\ UNCHANGED clientResponse
       ELSE /\ clientResponse' = [ID |-> id, Result |-> msg.Result, Error |-> msg.Error]
            /\ resp' = [Seq |-> id, Error |-> out.text]
            /\ IF out.end = "panic"
               THEN rpc' = "panic" /\ rret' = "none"
               ELSE rpc' = "ready" /\ rret' = out.end
    /\ UNCHANGED <<seq, pending, mutex, serverRequest, stream,
                   writerVars, issued, consumed>>

\* ------------------------------------------------------------ body readers
\* The engine's targets: nil, a *[]interface{}, or a pointer to one value.
Targets == {"nil", "list", "single"}

\* ReadRequestBody(x): decodes c.serverRequest.Params into the target.
ReadRequestBody(x) ==
    /\ Alive /\ rpc = "ready"
    /\ body' = IF x = "nil" THEN [op |-> "ReadRequestBody", ret |-> "nil", got |-> Nil]
               ELSE IF serverRequest.Params = Nil
               THEN [op |-> "ReadRequestBody", ret |-> "errMissingParams", got |-> Nil]
               ELSE [op |-> "ReadRequestBody", ret |-> "nil", got |-> serverRequest.Params]
    /\ body' # body
    /\ UNCHANGED <<codecVars, stream, req, resp, rpc, rret, writerVars, issued, consumed>>

\* ReadResponseBody(x): decodes c.clientResponse.Result into the target.
ReadResponseBody(x) ==
    /\ Alive /\ rpc = "ready"
    /\ body' = IF x = "nil" \/ clientResponse.Result = Nil
               THEN [op |-> "ReadResponseBody", ret |-> "nil", got |-> Nil]
               ELSE [op |-> "ReadResponseBody", ret |-> "nil", got |-> clientResponse.Result]
    /\ body' # body
    /\ UNCHANGED <<codecVars, stream, req, resp, rpc, rret, writerVars, issued, consumed>>

\* ------------------------------------------------------------ Frame Writer
\* Error texts the engine hands to WriteResponse ("" is success), sequence
\* numbers it answers, and the arguments of its outgoing calls.
ErrTexts == {""}
ResponseSeqs == 0..(MaxSeq + 1)
CallSeqs == 0..1
CallParams == {[list |-> TRUE, vals |-> <<"1", "2">>]}

\* json.Unmarshal([]byte(r.Error), &iErr): succeeds on a JSON array, and on
\* the literal null, which leaves iErr nil.
ParseErrArray(text) ==
    IF text = "[\"33\",\"Unauthorized\",null]"
    THEN [ok |-> TRUE, val |-> JArray(<<JString("33"), JString("Unauthorized"), JNull>>)]
    ELSE IF text = "null" THEN [ok |-> TRUE, val |-> JNull]
    ELSE [ok |-> FALSE, val |-> JNull]

\* The serverResponse that WriteResponse marshals, given r and the looked-up b.
ResponseFrameSeqAsId(r, b) ==
    [kind   |-> "response",
     id     |-> UintText(r.Seq),
     result |-> IF r.Error = "" THEN ResultText ELSE JNullText,
     error  |-> IF r.Error = "" THEN JNull
                ELSE IF ParseErrArray(r.Error).ok THEN ParseErrArray(r.Error).val
                ELSE JString(r.Error),
     method |-> "", params |-> <<>>]

ResponseFrame(r, b) ==
    [kind   |-> "response",
     id     |-> Compact(IF b = Nil THEN JNullText ELSE b),
     result |-> IF r.Error = "" THEN ResultText ELSE JNullText,
     error  |-> IF r.Error = "" THEN JNull
                ELSE IF ParseErrArray(r.Error).ok THEN ParseErrArray(r.Error).val
                ELSE JString(r.Error),
     method |-> "", params |-> <<>>]

\* The clientRequest that WriteRequest marshals: the id is null for Seq 0.
RequestFrameAlwaysId(r) ==
    [kind   |-> "request",
     id     |-> UintText(r.Seq),
     result |-> Nil, error |-> JNull,
     method |-> r.Method,
     params |-> IF r.Param.list THEN r.Param.vals ELSE <<r.Param.vals[1]>>]

RequestFrame(r) ==
    [kind   |-> "request",
     id     |-> IF r.Seq = 0 THEN JNullText ELSE UintText(r.Seq),
     result |-> Nil, error |-> JNull,
     method |-> r.Method,
     params |-> IF r.Param.list THEN r.Param.vals ELSE <<r.Param.vals[1]>>]

\* The value writer w is encoding.
FrameOf(w) == IF wr[w].op = "WriteResponse" THEN ResponseFrame(wr[w], wb[w])
              ELSE RequestFrame(wr[w])

Chunk(f, n) == [frame |-> f, part |-> n]

\* Frames of outgoing calls written so far.
CallsWritten == Cardinality({i \in 1..Len(stream) :
                    stream[i].part = 1 /\ stream[i].frame.kind = "request"})
CallsInFlight == Cardinality({w \in Writers : wr[w].op = "WriteRequest"})

\* WriteResponse(r, x) is called; it first waits for the mutex.
WriteResponse(w, s, e) ==
    /\ Alive /\ wpc[w] = "idle"
    /\ wr' = [wr EXCEPT ![w] = [op |-> "WriteResponse", Seq |-> s, Error |-> e,
                                Method |-> "", Param |-> <<>>]]
    /\ wpc' = [wpc EXCEPT ![w] = "wr_lock"]
    /\ UNCHANGED <<codecVars, stream, readerVars, wb, wret, issued, consumed>>

\* c.mutex.Lock()
WriteResponseLock(w) ==
    /\ Alive /\ wpc[w] = "wr_lock"
    /\ Lock(w)
    /\ wpc' = [wpc EXCEPT ![w] = "wr_lookup"]
    /\ UNCHANGED <<seq, pending, serverRequest, clientResponse, stream, readerVars,
                   wr, wb, wret, issued, consumed>>

\* b, ok := c.pending[r.Seq]; if !ok { c.mutex.Unlock(); return error }
WriteResponseLookupIgnoresOk(w) ==
    /\ Alive /\ wpc[w] = "wr_lookup"
    /\ wb' = [wb EXCEPT ![w] = IF wr[w].Seq \in DOMAIN pending
                               THEN pending[wr[w].Seq] ELSE Nil]
    /\ wpc' = [wpc EXCEPT ![w] = "wr_delete"]
    /\ consumed' = consumed \cup {wr[w].Seq}
    /\ UNCHANGED <<mutex, wret>>
    /\ UNCHANGED <<seq, pending, serverRequest, clientResponse, stream, readerVars,
                   wr, issued>>

WriteResponseLookup(w) ==
    /\ Alive /\ wpc[w] = "wr_lookup"
    /\ IF wr[w].Seq \in DOMAIN pending
       THEN /\ wb' = [wb EXCEPT ![w] = pending[wr[w].Seq]]
            /\ wpc' = [wpc EXCEPT ![w] = "wr_delete"]
            /\ consumed' = consumed \cup {wr[w].Seq}
            /\ UNCHANGED <<mutex, wret>>
       ELSE /\ Unlock
            /\ wpc' = [wpc EXCEPT ![w] = "returned"]
            /\ wret' = [wret EXCEPT ![w] = "errInvalidSeq"]
            /\ UNCHANGED <<wb, consumed>>
    /\ UNCHANGED <<seq, pending, serverRequest, clientResponse, stream, readerVars,
                   wr, issued>>

\* delete(c.pending, r.Seq); c.mutex.Unlock()
WriteResponseDeleteForgotten(w) ==
    /\ Alive /\ wpc[w] = "wr_delete"
    /\ pending' = pending
    /\ Unlock
    /\ wpc' = [wpc EXCEPT ![w] = "encode"]
    /\ UNCHANGED <<seq, serverRequest, clientResponse, stream, readerVars,
                   wr, wb, wret, issued, consumed>>

WriteResponseDelete(w) ==
    /\ Alive /\ wpc[w] = "wr_delete"
    /\ pending' = [s \in DOMAIN pending \ {wr[w].Seq} |-> pending[s]]
    /\ Unlock
    /\ wpc' = [wpc EXCEPT ![w] = "encode"]
    /\ UNCHANGED <<seq, serverRequest, clientResponse, stream, readerVars,
                   wr, wb, wret, issued, consumed>>

\* WriteRequest(r, param), up to c.enc.Encode(req)
WriteRequest(w, s, p) ==
    /\ Alive /\ wpc[w] = "idle"
    /\ CallsWritten + CallsInFlight < MaxCalls
    /\ wr' = [wr EXCEPT ![w] = [op |-> "WriteRequest", Seq |-> s, Error |-> "",
                                Method |-> "add", Param |-> p]]
    /\ wpc' = [wpc EXCEPT ![w] = "encode"]
    /\ UNCHANGED <<codecVars, stream, readerVars, wb, wret, issued, consumed>>

\* c.enc.Encode(v): the value is marshalled and handed to the connection's
\* Write.  Nothing in the codec orders the Write calls of different
\* goroutines, so the bytes of one frame reach the stream in two parts.
EncodeHead(w) ==
    /\ Alive /\ wpc[w] = "encode"
    /\ stream' = Append(stream, Chunk(FrameOf(w), 1))
    /\ wpc' = [wpc EXCEPT ![w] = "tail"]
    /\ UNCHANGED <<codecVars, readerVars, wr, wb, wret, issued, consumed>>

EncodeTail(w) ==
    /\ Alive /\ wpc[w] = "tail"
    /\ stream' = Append(stream, Chunk(FrameOf(w), 2))
    /\ wpc' = [wpc EXCEPT ![w] = "returned"]
    /\ wret' = [wret EXCEPT ![w] = "nil"]
    /\ UNCHANGED <<codecVars, readerVars, wr, wb, issued, consumed>>

\* Encode fails (the connection is closed, the value cannot be marshalled):
\* nothing is written and the error is returned.
EncodeFailRestores(w) ==
    /\ Alive /\ wpc[w] = "encode"
    /\ wpc' = [wpc EXCEPT ![w] = "returned"]
    /\ wret' = [wret EXCEPT ![w] = "errEncode"]
    /\ pending' = IF wr[w].op = "WriteResponse"
                  THEN [s \in DOMAIN pending \cup {wr[w].Seq} |->
                           IF s = wr[w].Seq THEN wb[w] ELSE pending[s]]
                  ELSE pending
    /\ UNCHANGED <<seq, mutex, serverRequest, clientResponse, stream, readerVars,
                   wr, wb, issued, consumed>>

EncodeFail(w) ==
    /\ Alive /\ wpc[w] = "encode"
    /\ wpc' = [wpc EXCEPT ![w] = "returned"]
    /\ wret' = [wret EXCEPT ![w] = "errEncode"]
    /\ UNCHANGED <<codecVars, stream, readerVars, wr, wb, issued, consumed>>

\* The call is over: its arguments and locals are gone.
Return(w) ==
    /\ Alive /\ wpc[w] = "returned"
    /\ wpc' = [wpc EXCEPT ![w] = "idle"]
    /\ wr' = [wr EXCEPT ![w] = NoArgs]
    /\ wb' = [wb EXCEPT ![w] = Nil]
    /\ wret' = [wret EXCEPT ![w] = "none"]
    /\ UNCHANGED <<codecVars, stream, readerVars, issued, consumed>>

\* ------------------------------------------------------- the specification
\* The steps of a ReadHeader call that has found a request with an id.
ReadHeaderCritical ==
    \/ ReadHeaderLock
    \/ ReadHeaderIncr
    \/ ReadHeaderInsert
    \/ ReadHeaderAssign

\* The steps of a goroutine that answers requests.
AnswerStep(w) ==
    \/ \E s \in ResponseSeqs, e \in ErrTexts : WriteResponse(w, s, e)
    \/ WriteResponseLock(w)
    \/ WriteResponseLookup(w)
    \/ WriteResponseDelete(w)
    \/ EncodeHead(w)
    \/ EncodeTail(w)
    \/ Return(w)

\* The steps of a goroutine that answers requests and makes calls.
WriterStep(w) ==
    \/ AnswerStep(w)
    \/ \E s \in CallSeqs, p \in CallParams : WriteRequest(w, s, p)

\* Spec: the id translation.  The read loop reads requests with every kind of
\* id, notifications and a response, against one goroutine that answers.
SpecResponseFrames == { f \in ResponseFrames : f.error = JNull }

ReaderStep ==
    \/ \E f \in RequestFrames \cup NotificationFrames : ReadHeaderRequest(f)
    \/ \E f \in SpecResponseFrames : ReadHeaderResponse(f)
    \/ ReadHeaderCritical

Next == ReaderStep \/ AnswerStep(1)

Spec == Init /\ [][Next]_vars

\* RaceSpec: the read loop, on requests with one kind of id and on
\* notifications, against all the goroutines that answer.
RaceFrames == { f \in RequestFrames \cup NotificationFrames :
                  f.id \in {IdNum, Nil, JNullText} }

RaceReaderStep ==
    \/ \E f \in RaceFrames : ReadHeaderRequest(f)
    \/ ReadHeaderCritical

RaceNext == RaceReaderStep \/ \E w \in Writers : AnswerStep(w)

RaceSpec == Init /\ [][RaceNext]_vars

\* WriteSpec: the same read loop against all the goroutines, which answer and
\* call, on a connection whose writes may fail.
WriteNext == RaceReaderStep \/ \E w \in Writers : (WriterStep(w) \/ EncodeFail(w))

WriteSpec == Init /\ [][WriteNext]_vars

\* FrameSpec: the read side.  The read loop reads every kind of frame and the
\* stream may end; each header may be followed by a body reader; one
\* goroutine answers and calls.
FrameReaderStep ==
    \/ ReadHeaderDecodeError
    \/ \E f \in RaceFrames : ReadHeaderRequest(f)
    \/ \E f \in ResponseFrames : ReadHeaderResponse(f)
    \/ ReadHeaderCritical
    \/ \E x \in Targets : ReadRequestBody(x)
    \/ \E x \in Targets : ReadResponseBody(x)

FrameNext == FrameReaderStep \/ WriterStep(1)

FrameSpec == Init /\ [][FrameNext]_vars

\* ReadSpec: the read loop alone, on frames of every shape: requests with and
\* without params, responses with every kind of id and of error member; each
\* header may be followed by a body reader.
ReadRequests == { Frame(JString("add"), ParamsText, IdNum, Nil, Absent) }
                    \cup NoParamsFrames

ReadResponses == ResponseFrames \cup BadIdFrames \cup BadErrorFrames
                   \cup ErrorTextFrames

ReadNext ==
    \/ \E f \in ReadRequests : ReadHeaderRequest(f)
    \/ ReadHeaderCritical
    \/ \E f \in ReadResponses : ReadHeaderResponse(f)
    \/ \E x \in Targets : ReadRequestBody(x)
    \/ \E x \in Targets : ReadResponseBody(x)

ReadSpec == Init /\ [][ReadNext]_vars

\* CloseSpec: the read loop reads requests and notifications until decoding
\* fails; one goroutine answers, on a connection whose writes may fail.
CloseReaderStep ==
    \/ \E f \in RaceFrames : ReadHeaderRequest(f)
    \/ ReadHeaderCritical
    \/ \E e \in DecodeErrors : ReadHeaderDecodeFails(e)

CloseNext == CloseReaderStep \/ AnswerStep(1) \/ EncodeFail(1)

CloseSpec == Init /\ [][CloseNext]_vars

\* WireSpec: the response frames.  One goroutine answers the requests the
\* read loop reads, with and without an error text.
WireErrTexts == {"", "boom", "[\"33\",\"Unauthorized\",null]", "null"}

WireWriterStep(w) ==
    \/ \E s \in ResponseSeqs, e \in WireErrTexts : WriteResponse(w, s, e)
    \/ WriteResponseLock(w)
    \/ WriteResponseLookup(w)
    \/ WriteResponseDelete(w)
    \/ EncodeHead(w)
    \/ EncodeTail(w)
    \/ Return(w)

WireNext == RaceReaderStep \/ WireWriterStep(1)

WireSpec == Init /\ [][WireNext]_vars

\* ------------------------------------------------------------------ claims
IssuedSeqs == {issued[i].seq : i \in 1..Len(issued)}
IdIssued(s) == (CHOOSE i \in 1..Len(issued) : issued[i].seq = s)
IssuedId(s) == issued[IdIssued(s)].id

\* Response frames on the stream, by their first part.
ResponseHeads == {i \in 1..Len(stream) :
                    stream[i].part = 1 /\ stream[i].frame.kind = "response"}

\* C1: the sequence numbers ReadHeader reports in req.Seq for inbound
\* requests with an id are pairwise distinct and strictly increasing in read
\* order, whatever notifications, responses, WriteRequest and WriteResponse
\* calls come in between; the Request of the latest such ReadHeader holds the
\* latest of them.
C1_SeqStrictlyIncreasing ==
    /\ \A i, j \in 1..Len(issued) : i < j => issued[i].seq < issued[j].seq
    /\ (rpc = "ready" /\ rret = "nil" /\ req.Seq # 0) =>
           (issued # <<>> /\ req.Seq = issued[Len(issued)].seq)

\* Two requests were numbered, with a response read, a call written and an
\* answer given on the way.
C1_Witness ==
    /\ Len(issued) >= 2
    /\ clientResponse.ID = 1
    /\ CallsWritten >= 1
    /\ consumed # {}
    /\ rpc = "ready" /\ rret = "nil" /\ req.Seq = 2

\* C2: a WriteResponse whose Seq was reported by ReadHeader and has not been
\* answered yet finds the entry, and the frame it emits carries the id of
\* that request, the same JSON value of the same type, whatever was read or
\* answered in between.
C2_AnswerCarriesOriginalId ==
    [][\A w \in Writers :
         /\ (WriteResponseLookup(w) /\ wr[w].Seq \in IssuedSeqs \ consumed)
                => wpc'[w] = "wr_delete"
         /\ (EncodeHead(w) /\ wr[w].op = "WriteResponse")
                => /\ wr[w].Seq \in IssuedSeqs
                   /\ stream'[Len(stream')].frame.kind = "response"
                   /\ JsonValue(stream'[Len(stream')].frame.id)
                          = JsonValue(IssuedId(wr[w].Seq))
      ]_vars

\* Request 1 is answered after request 2; its id is an array that the encoder
\* rewrites, so the bytes differ and the value does not.
C2_Witness ==
    /\ Len(issued) >= 2
    /\ IssuedId(1) = IdArr /\ IssuedId(2) = IdStr
    /\ 2 \in consumed
    /\ Cardinality(ResponseHeads) = 2
    /\ wpc[1] = "returned" /\ wret[1] = "nil"
    /\ wr[1].op = "WriteResponse" /\ wr[1].Seq = 1
    /\ stream[Len(stream)].frame.id # IdArr
    /\ JsonValue(stream[Len(stream)].frame.id) = JsonValue(IdArr)

\* C3: a WriteResponse whose Seq ReadHeader never reported, or whose Seq an
\* earlier WriteResponse has consumed, returns the invalid-sequence error
\* from its lookup, and no step of the call up to there writes to the stream
\* or changes pending or seq.
C3_InvalidSeqRejected ==
    [][\A w \in Writers :
         /\ (WriteResponseLookup(w)
               /\ (wr[w].Seq \notin IssuedSeqs \/ wr[w].Seq \in consumed))
                => /\ wpc'[w] = "returned" /\ wret'[w] = "errInvalidSeq"
                   /\ UNCHANGED <<pending, seq, stream>>
         /\ WriteResponseLock(w) => UNCHANGED <<pending, seq, stream>>
      ]_vars

\* The second answer to request 1 has failed, with request 2 still pending.
C3_Witness ==
    /\ wpc[1] = "returned" /\ wret[1] = "errInvalidSeq"
    /\ wr[1].Seq = 1 /\ 1 \in consumed
    /\ 2 \in DOMAIN pending
    /\ ResponseHeads # {}

\* What the critical sections have in hand: the key ReadHeader has inserted
\* and not yet reported, and the keys WriteResponse has looked up and not yet
\* deleted.
BeingReported == IF rpc = "rh_assign" THEN {seq} ELSE {}
BeingDeleted == {wr[w].Seq : w \in {v \in Writers : wpc[v] = "wr_delete"}}

\* C4: the keys of pending are exactly the sequence numbers ReadHeader has
\* reported for requests with an id and no WriteResponse lookup has found yet
\* (a critical section in progress aside), each bound to the id of its
\* request; only ReadHeader's insert and WriteResponse's delete change the
\* map, so the body readers, WriteRequest, notifications and responses do not.
C4_PendingIsIssuedNotConsumed ==
    /\ [](/\ DOMAIN pending = (IssuedSeqs \cup BeingReported) \ (consumed \ BeingDeleted)
          /\ mutex = {} => DOMAIN pending = IssuedSeqs \ consumed
          /\ \A s \in DOMAIN pending \cap IssuedSeqs : pending[s] = IssuedId(s))
    /\ [][pending' # pending =>
             \/ ReadHeaderInsert /\ DOMAIN pending' = DOMAIN pending \cup {seq}
             \/ \E w \in Writers : WriteResponseDelete(w)
                                   /\ DOMAIN pending' = DOMAIN pending \ {wr[w].Seq}
       ]_vars

\* Of two requests one is answered and one is pending, a call has been
\* written and a body reader has just run.
C4_Witness ==
    /\ mutex = {}
    /\ Len(issued) = 2 /\ consumed = {1} /\ DOMAIN pending = {2}
    /\ CallsWritten >= 1
    /\ body.op = "ReadRequestBody" /\ body.ret = "nil" /\ body.got = ParamsText

\* C5: reading a notification (id absent or null) changes neither seq nor
\* pending, returns at once and leaves the fresh Request's Seq at 0; the
\* numbers reported for requests with an id are 1, 2, 3, ... with no gap, and
\* none of them belongs to a notification.
C5_NotificationTakesNoSeq ==
    /\ [](\A i \in 1..Len(issued) : issued[i].seq = i /\ issued[i].id # Nil)
    /\ [][\A f \in NotificationFrames :
            ReadHeaderRequest(f) =>
                /\ seq' = seq /\ pending' = pending
                /\ rpc' = "ready" /\ rret' = "nil"
                /\ req'.Seq = 0
         ]_vars

\* A notification has just been read after the first request and before the
\* second.
C5_Witness ==
    /\ rpc = "ready" /\ rret = "nil"
    /\ req = [Method |-> "add", Seq |-> 0]
    /\ seq = 1 /\ Len(issued) = 1 /\ DOMAIN pending = {1}

\* C6: 0 is never a key of pending, so a WriteResponse with Seq 0, the handle
\* a notification leaves in a fresh Request, fails without a frame; every
\* response frame on the stream carries the id of a request that was read
\* with a non-null id, and there are no more of them than requests answered.
C6_NoResponseForNotification ==
    /\ [](/\ 0 \notin DOMAIN pending
          /\ \A i \in ResponseHeads :
                /\ stream[i].frame.id # JNullText
                /\ \E j \in 1..Len(issued) :
                      /\ issued[j].id # Nil
                      /\ JsonValue(stream[i].frame.id) = JsonValue(issued[j].id)
          /\ Cardinality(ResponseHeads) <= Cardinality(consumed \cap IssuedSeqs))
    /\ [][/\ \A f \in NotificationFrames : ReadHeaderRequest(f) => req'.Seq = 0
          /\ \A w \in Writers :
                (WriteResponseLookup(w) /\ wr[w].Seq = 0)
                    => /\ wpc'[w] = "returned" /\ wret'[w] = "errInvalidSeq"
                       /\ stream' = stream
         ]_vars

\* After a request was answered a notification is read, and the WriteResponse
\* for its handle 0 has failed.
C6_Witness ==
    /\ rpc = "ready" /\ rret = "nil" /\ req = [Method |-> "add", Seq |-> 0]
    /\ wpc[1] = "returned" /\ wret[1] = "errInvalidSeq"
    /\ wr[1].op = "WriteResponse" /\ wr[1].Seq = 0
    /\ Cardinality(ResponseHeads) = 1 /\ consumed = {1}

\* A writer that has found the entry of its Seq.
Found(w) ==
    /\ wr[w].op = "WriteResponse"
    /\ \/ wpc[w] \in {"wr_delete", "encode", "tail"}
       \/ wpc[w] = "returned" /\ wret[w] \in {"nil", "errEncode"}

\* C7: with the read loop and several WriteResponse callers interleaved at
\* every step, at most one goroutine is inside a critical section, no two
\* callers find the entry of the same sequence number (a lookup succeeds
\* exactly when the number was issued and not yet found, and fails with the
\* invalid-sequence error otherwise), and every issued number is distinct and
\* is either pending or consumed.
C7_CriticalSectionsAtomic ==
    /\ [](/\ Cardinality(mutex) <= 1
          /\ \A v, w \in Writers :
                (v # w /\ Found(v) /\ Found(w)) => wr[v].Seq # wr[w].Seq
          /\ \A i, j \in 1..Len(issued) : i # j => issued[i].seq # issued[j].seq
          /\ IssuedSeqs \subseteq DOMAIN pending \cup consumed)
    /\ [][\A w \in Writers :
            WriteResponseLookup(w) =>
                IF wr[w].Seq \in IssuedSeqs \ consumed
                THEN wpc'[w] = "wr_delete" /\ wb'[w] = IssuedId(wr[w].Seq)
                ELSE wpc'[w] = "returned" /\ wret'[w] = "errInvalidSeq"
         ]_vars

\* Two callers answer request 1 at the same time: one has written the frame,
\* the other has got the invalid-sequence error.
C7_Witness ==
    /\ wr[1].op = "WriteResponse" /\ wr[2].op = "WriteResponse"
    /\ wr[1].Seq = 1 /\ wr[2].Seq = 1
    /\ wpc[1] = "returned" /\ wret[1] = "errInvalidSeq"
    /\ wpc[2] = "returned" /\ wret[2] = "nil"
    /\ Cardinality(ResponseHeads) = 1

\* C8: the frames written by different goroutines are never interleaved on
\* the stream: every first part of a frame is followed at once by the second
\* part of the same frame (or is the last thing written so far).
C8_FramesContiguous ==
    \A i \in 1..Len(stream) :
        IF stream[i].part = 1
        THEN i = Len(stream) \/ stream[i + 1] = Chunk(stream[i].frame, 2)
        ELSE i > 1 /\ stream[i - 1] = Chunk(stream[i].frame, 1)

\* FairSpec: Spec with both goroutines scheduled: the read loop and the
\* writer each keep taking steps while they can.
FairSpec == Spec /\ WF_vars(ReaderStep) /\ WF_vars(AnswerStep(1))

\* A WriteResponse for sequence number s is under way.
Answering(s) == \E w \in Writers : wr[w].op = "WriteResponse" /\ wr[w].Seq = s

\* C9: a pending entry does not stay for ever unanswered: it is removed, or
\* the engine calls WriteResponse with its sequence number.
C9_AbandonedEntryRemoved ==
    \A s \in 1..MaxSeq :
        (s \in DOMAIN pending) ~> (s \notin DOMAIN pending \/ Answering(s))

\* Every frame of FrameSpec's read loop.
FrameFrames == RaceFrames \cup ResponseFrames

\* C10: ReadHeader treats a frame as a request exactly when its method is
\* non-empty.  A request fills the Request (Method at once, Seq at the end of
\* the critical section) and leaves the Response and the response work space
\* as they were, whatever result and error it carries; a response leaves the
\* Request, the request work space, pending, seq and the mutex as they were,
\* and fills the Response's Seq with its id when ReadHeader returns nil.
C10_ClassifiedByMethod ==
    /\ [][\A f \in FrameFrames :
            /\ ReadHeaderRequest(f) =>
                  /\ f.method.kind = "string" /\ f.method.str # ""
                  /\ req' = [Method |-> f.method.str, Seq |-> 0]
                  /\ resp' = ZeroResponse
                  /\ clientResponse' = clientResponse
                  /\ (f.id \in {Nil, JNullText}) <=> (rpc' = "ready")
            /\ ReadHeaderResponse(f) =>
                  /\ f.method.kind # "string" \/ f.method.str = ""
                  /\ req' = ZeroRequest
                  /\ serverRequest' = serverRequest
                  /\ pending' = pending /\ seq' = seq /\ mutex' = mutex
                  /\ issued' = issued
                  /\ rret' = "nil" => resp'.Seq = UintValue(f.id, 0)
         ]_vars
    /\ [][ReadHeaderCritical => resp' = resp /\ clientResponse' = clientResponse
                                /\ req'.Method = req.Method]_vars
    /\ [][ReadHeaderAssign => req'.Seq = seq /\ seq \in DOMAIN pending]_vars

\* A frame with an empty method, params, a result and an error has been read
\* as a response while a request is pending.
C10_Witness ==
    /\ rpc = "ready" /\ rret = "nil"
    /\ req = ZeroRequest
    /\ resp = [Seq |-> 1, Error |-> "unspecified error"]
    /\ clientResponse.Result = ResultText
    /\ DOMAIN pending = {1} /\ seq = 1

\* C11: ReadHeader on a response whose id is absent, JSON null or not an
\* unsigned integer returns an error for that frame: it does not crash, and
\* pending and seq stay as they were.
C11_BadIdIsAnError ==
    [][\A f \in BadIdFrames :
          ReadHeaderResponse(f) =>
              /\ rpc' = "ready" /\ rret' = "errUnmarshal"
              /\ pending' = pending /\ seq' = seq
      ]_vars

\* C12: ReadHeader on a response whose error member is present and is neither
\* a string nor an array with a string in second place returns the
\* invalid-error error: it neither crashes nor returns nil.
C12_BadErrorIsAnError ==
    [][\A f \in BadErrorFrames :
          ReadHeaderResponse(f) => (rpc' = "ready" /\ rret' = "errInvalidError")
      ]_vars

\* The error text the engine is to see for each wire error member.
ClaimedErrorText ==
    [f \in ErrorTextFrames |->
        IF f.error \in {Absent, JNull} THEN ""
        ELSE IF f.error = JString("boom") THEN "boom"
        ELSE IF f.error = JArray(<<JString("33"), JString("Unauthorized"), JNull>>)
             THEN "Unauthorized"
        ELSE "unspecified error"]

\* C13: for a response that ReadHeader accepts, resp.Error is empty when the
\* error member is absent or null, the string itself when it is a non-empty
\* string, the second element when it is an array, and "unspecified error"
\* when that text is empty; so, whatever the frame, resp.Error is non-empty
\* exactly when the error member is present and not null.
C13_ErrorTextNormalised ==
    /\ [][\A f \in ErrorTextFrames :
            ReadHeaderResponse(f) =>
                /\ rpc' = "ready" /\ rret' = "nil"
                /\ resp'.Error = ClaimedErrorText[f]
         ]_vars
    /\ [][\A f \in ReadResponses :
            (ReadHeaderResponse(f) /\ rret' = "nil") =>
                (resp'.Error # "" <=> f.error.kind \notin {"absent", "null"})
         ]_vars

\* The response with error ["33", "Unauthorized", null] has been read while
\* a request is pending.
C13_Witness ==
    /\ rpc = "ready" /\ rret = "nil"
    /\ clientResponse.Error = DecodeAny(JArray(<<JString("33"), JString("Unauthorized"), JNull>>))
    /\ resp = [Seq |-> 1, Error |-> "Unauthorized"]
    /\ DOMAIN pending = {1}

\* C14: after ReadHeader has returned a "ping" request, whose params are
\* absent or null, ReadRequestBody fails with the missing-params error for a
\* target that is not nil and returns nil for a nil target, whatever was read
\* before.
C14_MissingParams ==
    [][\A x \in Targets :
          (ReadRequestBody(x) /\ req.Method = "ping" /\ rret = "nil") =>
              /\ body'.op = "ReadRequestBody" /\ body'.got = Nil
              /\ body'.ret = IF x = "nil" THEN "nil" ELSE "errMissingParams"
      ]_vars

\* The first request carried params, the second is a "ping", and the body
\* reader has failed on it.
C14_Witness ==
    /\ Len(issued) = 2 /\ issued[1].id = IdNum /\ issued[2].id = IdStr
    /\ rpc = "ready" /\ rret = "nil" /\ req = [Method |-> "ping", Seq |-> 2]
    /\ body = [op |-> "ReadRequestBody", ret |-> "errMissingParams", got |-> Nil]

\* C15: when decoding the next value fails, ReadHeader returns the decoder's
\* error itself (EOF as EOF) and leaves seq and pending as they were; a
\* request that is pending then is still answered, with its id.
C15_DecodeErrorVerbatim ==
    /\ [][\A e \in DecodeErrors :
            ReadHeaderDecodeFails(e) =>
                (rret' = e /\ seq' = seq /\ pending' = pending)
         ]_vars
    /\ [][\A w \in Writers :
            /\ (WriteResponseLookup(w) /\ rret \in DecodeErrors
                   /\ wr[w].Seq \in IssuedSeqs \ consumed)
                  => (wpc'[w] = "wr_delete" /\ wb'[w] = IssuedId(wr[w].Seq))
            /\ (EncodeTail(w) /\ rret \in DecodeErrors /\ wr[w].op = "WriteResponse")
                  => /\ wret'[w] = "nil"
                     /\ JsonValue(stream'[Len(stream')].frame.id)
                            = JsonValue(IssuedId(wr[w].Seq))
         ]_vars

\* The stream has ended with request 1 pending, and a WriteResponse for it is
\* at its lookup.
C15_Witness ==
    /\ rpc = "closed" /\ rret = "EOF"
    /\ wpc[1] = "wr_lookup" /\ wr[1].Seq = 1
    /\ 1 \in DOMAIN pending /\ seq >= 1

\* C16: the frame WriteRequest emits has a null id exactly when Seq is 0 and
\* otherwise the number Seq as its id; no step of a WriteRequest call changes
\* pending or seq or uses up a sequence number, so a call numbered n leaves
\* the pending entry n alone.
C16_CallIdNullIffSeqZero ==
    /\ [][\A w \in Writers :
            (EncodeHead(w) /\ wr[w].op = "WriteRequest") =>
                LET f == stream'[Len(stream')].frame IN
                /\ f.kind = "request"
                /\ f.id = JNullText <=> wr[w].Seq = 0
                /\ wr[w].Seq # 0 =>
                      (f.id # JNullText /\ UintOk(f.id)
                         /\ UintValue(f.id, 0) = wr[w].Seq)
         ]_vars
    /\ [][\A w \in Writers :
            (\/ \E s \in CallSeqs, p \in CallParams : WriteRequest(w, s, p)
             \/ (EncodeHead(w) \/ EncodeTail(w) \/ Return(w))
                   /\ wr[w].op = "WriteRequest")
              => (pending' = pending /\ seq' = seq /\ consumed' = consumed
                    /\ mutex' = mutex)
         ]_vars

\* A call numbered 1 has been written while the inbound request numbered 1
\* is pending, and the entry is still there.
C16_Witness ==
    /\ wpc[1] = "returned" /\ wret[1] = "nil"
    /\ wr[1].op = "WriteRequest" /\ wr[1].Seq = 1
    /\ stream[Len(stream)].frame.kind = "request"
    /\ stream[Len(stream)].frame.id = <<"1">>
    /\ DOMAIN pending = {1} /\ consumed = {} /\ mutex = {}

\* The error value the peer is to see for each non-empty error text of the
\* engine: the array for the text of a JSON array, the string otherwise.
ClaimedErrorValue ==
    [e \in WireErrTexts \ {""} |->
        IF e = "[\"33\",\"Unauthorized\",null]"
        THEN JArray(<<JString("33"), JString("Unauthorized"), JNull>>)
        ELSE JString(e)]

\* C17: every response frame carries exactly one of a result and an error:
\* for an empty error text the result and a null error, for a non-empty one
\* a null result and the error, which is the array the text denotes if it
\* denotes one and the text as a string otherwise.
C17_ExactlyOneOfResultAndError ==
    /\ [](\A i \in ResponseHeads :
             (stream[i].frame.result = JNullText) <=> (stream[i].frame.error # JNull))
    /\ [][\A w \in Writers :
            (EncodeHead(w) /\ wr[w].op = "WriteResponse") =>
                LET f == stream'[Len(stream')].frame IN
                /\ f.id = Compact(IssuedId(wr[w].Seq))
                /\ IF wr[w].Error = ""
                   THEN f.result = ResultText /\ f.error = JNull
                   ELSE f.result = JNullText /\ f.error = ClaimedErrorValue[wr[w].Error]
         ]_vars

\* C18: when ReadHeader has returned for a frame, the work space of the body
\* readers holds data of that frame only (or nothing): a response leaves no
\* method or params of an earlier request, a request leaves no result or
\* error of an earlier response, and a body reader of the other kind than the
\* frame gets nothing to decode.
C18_WorkSpaceOfThisFrameOnly ==
    /\ [][\A f \in ReadResponses :
            (ReadHeaderResponse(f) /\ rret' = "nil") =>
                /\ serverRequest'.Method \in {"", Decode(f).Method}
                /\ serverRequest'.Params \in {Nil, Decode(f).Params}
         ]_vars
    /\ [][\A f \in ReadRequests :
            ReadHeaderRequest(f) =>
                /\ clientResponse'.Result \in {Nil, Decode(f).Result}
                /\ clientResponse'.Error \in {GoNil, Decode(f).Error}
         ]_vars
    /\ [][\A x \in Targets :
            /\ (ReadRequestBody(x) /\ rret = "nil" /\ req.Method = "")
                  => body'.got = Nil
            /\ (ReadResponseBody(x) /\ rret = "nil" /\ req.Method # "")
                  => body'.got = Nil
         ]_vars

\* C19: every key of pending lies in 1..seq, so 0 is not a key, and every
\* stored id is present (not nil); so the b a WriteResponse has looked up is
\* never nil, and the branch that puts null in its place is not taken.
C19_PendingKeysAndValues ==
    /\ DOMAIN pending \subseteq 1..seq
    /\ 0 \notin DOMAIN pending
    /\ \A s \in DOMAIN pending : pending[s] # Nil /\ pending[s] # JNullText
    /\ \A w \in Writers :
          (wr[w].op = "WriteResponse" /\ wpc[w] \in {"wr_delete", "encode", "tail"})
              => wb[w] # Nil

\* With requests and notifications read, request 2 is pending and the answer
\* to request 1 is about to be encoded with the id it came with.
C19_Witness ==
    /\ seq = 2 /\ DOMAIN pending = {2} /\ pending[2] = IdStr
    /\ req = [Method |-> "add", Seq |-> 0] /\ rret = "nil"
    /\ wpc[1] = "encode" /\ wr[1].op = "WriteResponse" /\ wr[1].Seq = 1
    /\ wb[1] = IdArr

\* C20: WriteResponse deletes the entry before it encodes and never puts it
\* back: while and after the frame is encoded the sequence number is not a
\* key of pending, a failed Encode changes neither pending nor the stream, a
\* consumed number never becomes a key again, and a later WriteResponse with
\* it gets the invalid-sequence error.
C20_EntryGoneAfterFailedWrite ==
    /\ [](\A w \in Writers :
             (wr[w].op = "WriteResponse"
                /\ (wpc[w] \in {"encode", "tail"}
                      \/ (wpc[w] = "returned" /\ wret[w] \in {"nil", "errEncode"})))
               => wr[w].Seq \notin DOMAIN pending)
    /\ [][\A w \in Writers :
            (EncodeFail(w) /\ wr[w].op = "WriteResponse") =>
                /\ wret'[w] = "errEncode"
                /\ pending' = pending /\ stream' = stream
         ]_vars
    /\ [][\A s \in consumed :
            s \notin DOMAIN pending => s \notin DOMAIN pending'
         ]_vars
    /\ [][\A w \in Writers :
            (WriteResponseLookup(w) /\ wr[w].Seq \in consumed) =>
                (wpc'[w] = "returned" /\ wret'[w] = "errInvalidSeq")
         ]_vars

\* The answer to request 1 was lost in a failed write, no response frame is
\* on the stream, and the retry has got the invalid-sequence error.
C20_Witness ==
    /\ 1 \in IssuedSeqs /\ 1 \in consumed /\ 1 \notin DOMAIN pending
    /\ ResponseHeads = {}
    /\ wpc[1] = "returned" /\ wret[1] = "errInvalidSeq"
    /\ wr[1].op = "WriteResponse" /\ wr[1].Seq = 1

====
